---- MODULE Spec2Model ----
(***************************************************************************)
(* Retention/cleanup subsystem of the Playwright automation framework:     *)
(* utilities/cleanup_utils.py (CleanupUtils), cleanup.py (command line)    *)
(* and utilities/logger.py (the logging sink it writes to).                *)
(*                                                                         *)
(* The filesystem is the state.  A directory is a record                   *)
(*     [exists |-> BOOLEAN, list |-> sequence of entries]                  *)
(* whose list is in the order the operating system lists it (os.scandir /  *)
(* os.listdir order), and an entry is [name, kind, time]: kind "file" or   *)
(* "dir", time the mtime (reports, logs) or ctime (screenshot folders) in  *)
(* seconds.                                                                *)
(***************************************************************************)
EXTENDS Integers, Sequences, FiniteSets, TLC

(***************************************************************************)
(* Bounds of the model.                                                    *)
(***************************************************************************)
\* Most entries a varied directory holds in an initial state; times of the
\* entries present before a call range over 1..MaxEntries.
MaxEntries == 3
\* Largest retention count (keep_count, max_screenshots, reports_to_match)
\* a caller passes.
MaxKeep == 3
\* Smallest (negative) retention count a caller passes is -MaxNeg.
MaxNeg == 2

(***************************************************************************)
(* Program constants.                                                      *)
(***************************************************************************)
\* REPORTING_SETTINGS["max_reports_to_keep"]
MaxReportsToKeep == 5
\* SCREENSHOT_SETTINGS["max_screenshots_to_keep"]
MaxScreenshotsToKeep == 5

\* The time of the running process: later than every entry that was there
\* before it.
Now == MaxEntries + 1

(***************************************************************************)
(* Strings.                                                                *)
(***************************************************************************)
NoName == ""
Html == ".html"
DotLog == ".log"
\* REPORTING_SETTINGS["report_prefix"]
PlaywrightReport == "playwright_report_"
\* the fixed part of the log pattern "test_execution_*.log"
TestExecution == "test_execution_"

Digits == "0123456789"

Digit(d) == SubSeq(Digits, d + 1, d + 1)

TwoDigits(n) == Digit(n \div 10) \o Digit(n % 10)

\* datetime.fromtimestamp(t).strftime("%Y-%m-%d_%H-%M-%S"), for a time t of
\* the first day of the epoch, in UTC.
Strftime(t) ==
    "1970-01-01_"
        \o TwoDigits((t \div 3600) % 24) \o "-"
        \o TwoDigits((t \div 60) % 60) \o "-"
        \o TwoDigits(t % 60)

StartsWith(s, p) == Len(s) >= Len(p) /\ SubSeq(s, 1, Len(p)) = p

EndsWith(s, p) == Len(s) >= Len(p) /\ SubSeq(s, Len(s) - Len(p) + 1, Len(s)) = p

\* (variant: the empty string is in no string)
ContainsNonEmpty(sub, s) ==
    /\ sub # ""
    /\ \E i \in 0..(Len(s) - Len(sub)) : SubSeq(s, i + 1, i + Len(sub)) = sub

\* Python's `sub in s` on strings.
Contains(sub, s) ==
    \E i \in 0..(Len(s) - Len(sub)) : SubSeq(s, i + 1, i + Len(sub)) = sub

\* Positions of character c in s.
Positions(s, c) == {i \in 1..Len(s) : SubSeq(s, i, i) = c}

SetMin(S) == CHOOSE x \in S : \A y \in S : x <= y

SetMax(S) == CHOOSE x \in S : \A y \in S : x >= y

\* glob's match of the pattern "*.html" against an entry name: fnmatch of
\* the name, and glob leaves out names that start with a dot.
MatchHtml(name) == EndsWith(name, Html) /\ ~StartsWith(name, ".")

\* glob's match of "test_execution_*.log".
MatchLog(name) ==
    /\ Len(name) >= Len(TestExecution) + Len(DotLog)
    /\ StartsWith(name, TestExecution)
    /\ EndsWith(name, DotLog)

(***************************************************************************)
(* Python values.                                                          *)
(***************************************************************************)
\* Optional[int]: <<>> is None, <<n>> is the integer n.
None == <<>>
Some(n) == <<n>>

\* (variant: a count below 1 is taken as not given)
OrDefaultBelowOne(x, default) == IF x = None \/ x[1] < 1 THEN default ELSE x[1]

\* `x or default`: None and 0 are both falsy.
OrDefault(x, default) == IF x = None \/ x[1] = 0 THEN default ELSE x[1]

\* s[k:] with Python's treatment of a negative or too large k.
SliceFrom(s, k) ==
    LET start == IF k < 0 THEN (IF Len(s) + k < 0 THEN 0 ELSE Len(s) + k)
                 ELSE (IF k > Len(s) THEN Len(s) ELSE k)
    IN  SubSeq(s, start + 1, Len(s))

\* s[:n].
SliceTo(s, n) ==
    LET stop == IF n < 0 THEN (IF Len(s) + n < 0 THEN 0 ELSE Len(s) + n)
                ELSE (IF n > Len(s) THEN Len(s) ELSE n)
    IN  SubSeq(s, 1, stop)

\* (variant: an unstable sort, equal times end up in reverse listing order)
InsertDescUnstable(sorted, e) ==
    LET before == {i \in 1..Len(sorted) : sorted[i].time > e.time}
        n == IF before = {} THEN 0 ELSE SetMax(before)
    IN  SubSeq(sorted, 1, n) \o <<e>> \o SubSeq(sorted, n + 1, Len(sorted))

\* Where list.sort(key=time, reverse=True) puts e among the already sorted
\* elements before it: after every element whose time is >= its own, so that
\* equal times keep their order (the sort is stable).
InsertDesc(sorted, e) ==
    LET before == {i \in 1..Len(sorted) : sorted[i].time >= e.time}
        n == IF before = {} THEN 0 ELSE SetMax(before)
    IN  SubSeq(sorted, 1, n) \o <<e>> \o SubSeq(sorted, n + 1, Len(sorted))

RECURSIVE SortByTimeDesc(_)
\* files.sort(key=os.path.getmtime, reverse=True) (or getctime).
SortByTimeDesc(files) ==
    IF files = <<>> THEN <<>>
    ELSE InsertDesc(SortByTimeDesc(SubSeq(files, 1, Len(files) - 1)),
                    files[Len(files)])

(***************************************************************************)
(* Filesystem.                                                             *)
(***************************************************************************)
NoDir == [exists |-> FALSE, list |-> <<>>]

Dir(list) == [exists |-> TRUE, list |-> list]

Names(list) == {list[i].name : i \in 1..Len(list)}

Entries(list) == {list[i] : i \in 1..Len(list)}

\* (variant: an entry is renamed out of the way, not removed)
RenamedAway(list, name) ==
    [i \in 1..Len(list) |->
        IF list[i].name = name THEN [list[i] EXCEPT !.name = @ \o ".bak"]
        ELSE list[i]]

\* The listing without the entry called name.
Without(list, name) == SelectSeq(list, LAMBDA e : e.name # name)

\* glob.glob(os.path.join(dir, pattern)): the entries of the directory whose
\* name matches, in listing order; nothing when the directory is missing.
GlobHtml(dir) == SelectSeq(dir.list, LAMBDA e : MatchHtml(e.name))

\* (variant: the pattern is "test_execution*.log")
GlobLogLoose(dir) ==
    SelectSeq(dir.list, LAMBDA e : StartsWith(e.name, "test_execution")
                                      /\ EndsWith(e.name, DotLog))

GlobLog(dir) == SelectSeq(dir.list, LAMBDA e : MatchLog(e.name))

\* (variant: a folder created by a run in progress is not listed)
ListFoldersSettled(dir) ==
    SelectSeq(dir.list, LAMBDA e : e.kind = "dir" /\ e.time < Now)

\* [d for d in os.listdir(root) if os.path.isdir(os.path.join(root, d))]
ListFolders(dir) == SelectSeq(dir.list, LAMBDA e : e.kind = "dir")

(***************************************************************************)
(* Logging sink (utilities/logger.py).                                     *)
(***************************************************************************)
LogRec(level, msg, name, num) ==
    [level |-> level, msg |-> msg, name |-> name, num |-> num]

Info(msg, name, num) == LogRec("INFO", msg, name, num)

Error(msg, name) == LogRec("ERROR", msg, name, 0)

\* A record written through the FileHandler is appended to the process's own
\* log file: if that file is still an entry of the logs directory, its mtime
\* becomes the current time.
LoggerWrite(f, own) ==
    IF f.logs.exists /\ own # NoName /\ own \in Names(f.logs.list)
    THEN [f EXCEPT !.logs.list =
             [i \in 1..Len(f.logs.list) |->
                 IF f.logs.list[i].name = own
                 THEN [f.logs.list[i] EXCEPT !.time = Now]
                 ELSE f.logs.list[i]]]
    ELSE f

(***************************************************************************)
(* The deletion loops.                                                     *)
(***************************************************************************)
\* (variant: the first failed deletion ends the loop)
RECURSIVE RemoveUntilFailure(_, _, _, _, _, _)
RemoveUntilFailure(list, olds, fail, log, okMsg, errMsg) ==
    IF olds = <<>> THEN [list |-> list, log |-> log]
    ELSE LET e == Head(olds)
         IN  IF e.name \in fail
             THEN [list |-> list, log |-> Append(log, Error(errMsg, e.name))]
             ELSE RemoveUntilFailure(Without(list, e.name), Tail(olds), fail,
                                     Append(log, Info(okMsg, e.name, 0)),
                                     okMsg, errMsg)

RECURSIVE RemoveEach(_, _, _, _, _, _)
\* for old in olds: try: os.remove(old) / shutil.rmtree(old);
\*                       logger.info(okMsg) except Exception: logger.error(errMsg)
\* A deletion fails for the names in fail (locked, no permission, already
\* gone); the loop goes on with the next entry.
RemoveEach(list, olds, fail, log, okMsg, errMsg) ==
    IF olds = <<>> THEN [list |-> list, log |-> log]
    ELSE LET e == Head(olds)
         IN  IF e.name \in fail
             THEN RemoveEach(list, Tail(olds), fail,
                             Append(log, Error(errMsg, e.name)), okMsg, errMsg)
             ELSE RemoveEach(Without(list, e.name), Tail(olds), fail,
                             Append(log, Info(okMsg, e.name, 0)), okMsg, errMsg)

\* What a call hands back to the model: the filesystem after it, the name of
\* the process's log file, the records it logged, how it ended ("returned" or
\* "raised") and the sorted listing it worked on.
Result(f, own, log, outcome, sorted) ==
    [fs |-> f, own |-> own, log |-> log, outcome |-> outcome, sorted |-> sorted]

\* An entry of the listing has been removed by someone else before the sort
\* stats it: os.path.getmtime raises FileNotFoundError out of the call.
StatRaises(f, own, log, where, gone) ==
    Result([f EXCEPT ![where].list = Without(f[where].list, gone)],
           own, log, "raised", <<>>)

(***************************************************************************)
(* CleanupUtils.cleanup_reports                                            *)
(***************************************************************************)
\* (variant: the slice starts one entry too late)
OldReportsOffByOne(report_files, max_reports_to_keep) ==
    IF Len(report_files) > max_reports_to_keep
    THEN SliceFrom(report_files, max_reports_to_keep + 1)
    ELSE <<>>

\* (variant: the slice starts one entry too early)
OldReportsInclusive(report_files, max_reports_to_keep) ==
    IF Len(report_files) > max_reports_to_keep
    THEN SliceFrom(report_files, max_reports_to_keep - 1)
    ELSE <<>>

\* (variant: a call deletes the oldest file only)
OldReportsOneAtATime(report_files, max_reports_to_keep) ==
    IF Len(report_files) > max_reports_to_keep
    THEN SliceFrom(report_files, Len(report_files) - 1)
    ELSE <<>>

\* report_files[max_reports_to_keep:] when len(report_files) > keep
OldReports(report_files, max_reports_to_keep) ==
    IF Len(report_files) > max_reports_to_keep
    THEN SliceFrom(report_files, max_reports_to_keep)
    ELSE <<>>

cleanup_reports(f, own, max_reports, fail, gone) ==
    LET max_reports_to_keep == OrDefault(max_reports, MaxReportsToKeep)
        f1 == LoggerWrite(f, own)
    IN  IF ~f.reports.exists
        THEN Result(f1, own,
                    <<Info("Reports directory does not exist", NoName, 0)>>,
                    "returned", <<>>)
        ELSE
        LET log1 == <<Info("Cleaning up reports, keeping", NoName,
                           max_reports_to_keep)>>
            listed == GlobHtml(f1.reports)
        IN  IF gone \in Names(listed)
            THEN StatRaises(f1, own, log1, "reports", gone)
            ELSE
            LET report_files == SortByTimeDesc(listed)
                r == RemoveEach(f1.reports.list,
                                OldReports(report_files, max_reports_to_keep),
                                fail, log1,
                                "Deleted old report", "Failed to delete report")
            IN  Result([f1 EXCEPT !.reports.list = r.list], own, r.log,
                       "returned", report_files)

(***************************************************************************)
(* CleanupUtils.cleanup_logs                                               *)
(***************************************************************************)
\* (variant: the slice starts one entry too late)
OldLogsOffByOne(log_files, max_logs_to_keep) ==
    IF Len(log_files) > max_logs_to_keep
    THEN SliceFrom(log_files, max_logs_to_keep + 1)
    ELSE <<>>

\* log_files[max_logs_to_keep:] when len(log_files) > keep
OldLogs(log_files, max_logs_to_keep) ==
    IF Len(log_files) > max_logs_to_keep
    THEN SliceFrom(log_files, max_logs_to_keep)
    ELSE <<>>

cleanup_logs(f, own, max_logs, fail, gone) ==
    LET max_logs_to_keep == OrDefault(max_logs, MaxReportsToKeep)
        f1 == LoggerWrite(f, own)
    IN  IF ~f.logs.exists
        THEN Result(f1, own,
                    <<Info("Logs directory does not exist", NoName, 0)>>,
                    "returned", <<>>)
        ELSE
        LET log1 == <<Info("Cleaning up logs, keeping", NoName,
                           max_logs_to_keep)>>
            listed == GlobLog(f1.logs)
        IN  IF gone \in Names(listed)
            THEN StatRaises(f1, own, log1, "logs", gone)
            ELSE
            LET log_files == SortByTimeDesc(listed)
                r == RemoveEach(f1.logs.list,
                                OldLogs(log_files, max_logs_to_keep),
                                fail, log1,
                                "Deleted old log", "Failed to delete log")
                \* a deleted log file of the process stays open, and is no
                \* longer an entry of the directory
                own1 == IF own \in Names(r.list) THEN own ELSE NoName
            IN  Result([f1 EXCEPT !.logs.list = r.list], own1, r.log,
                       "returned", log_files)

(***************************************************************************)
(* CleanupUtils._cleanup_screenshots_match_reports                         *)
(***************************************************************************)
\* (variant: the filename is split at its last "_")
ExtractTimestampLastSeparator(report) ==
    LET filename == report.name
        us == Positions(filename, "_")
    IN  IF us = {} THEN Strftime(report.time)
        ELSE LET rest == SubSeq(filename, SetMax(us) + 1, Len(filename))
                 dots == Positions(rest, ".")
             IN  IF dots = {} THEN rest
                 ELSE SubSeq(rest, 1, SetMax(dots) - 1)

\* (variant: without the fallback, a filename without "_" gives its stem)
ExtractTimestampNoFallback(report) ==
    LET filename == report.name
        us == Positions(filename, "_")
        rest == IF us = {} THEN filename
                ELSE SubSeq(filename, SetMin(us) + 1, Len(filename))
        dots == Positions(rest, ".")
    IN  IF dots = {} THEN rest ELSE SubSeq(rest, 1, SetMax(dots) - 1)

\* filename.split("_", 1)[1].rsplit(".", 1)[0]; a filename without "_" has no
\* element [1] (IndexError), and the timestamp is then the report's mtime,
\* formatted.
ExtractTimestamp(report) ==
    LET filename == report.name
        us == Positions(filename, "_")
    IN  IF us = {} THEN Strftime(report.time)
        ELSE LET rest == SubSeq(filename, SetMin(us) + 1, Len(filename))
                 dots == Positions(rest, ".")
             IN  IF dots = {} THEN rest
                 ELSE SubSeq(rest, 1, SetMax(dots) - 1)

\* (variant: with no report at all, every folder is taken to match)
ReportTimestampsKeepAll(report_files, num_reports) ==
    LET taken == SliceTo(report_files, num_reports)
    IN  IF report_files = <<>> THEN <<"">>
        ELSE [i \in 1..Len(taken) |-> ExtractTimestamp(taken[i])]

\* report_timestamps: one timestamp for each of report_files[:num_reports]
ReportTimestamps(report_files, num_reports) ==
    LET taken == SliceTo(report_files, num_reports)
    IN  [i \in 1..Len(taken) |-> ExtractTimestamp(taken[i])]

\* match_found: some timestamp is a substring of the folder's name
MatchFound(folder, report_timestamps) ==
    \E i \in 1..Len(report_timestamps) : Contains(report_timestamps[i], folder)

cleanup_screenshots_match_reports(f, own, reports_to_match, fail, gone) ==
    LET num_reports == OrDefault(reports_to_match, MaxReportsToKeep)
        f1 == LoggerWrite(f, own)
        log1 == <<Info("Cleaning up screenshots to match", NoName, num_reports)>>
        listed == GlobHtml(f1.reports)
    IN  IF gone \in Names(listed)
        THEN StatRaises(f1, own, log1, "reports", gone)
        ELSE
        LET report_files == SortByTimeDesc(listed)
            report_timestamps == ReportTimestamps(report_files, num_reports)
            screenshot_folders == ListFolders(f1.screenshots)
            unmatched == SelectSeq(screenshot_folders,
                             LAMBDA d : ~MatchFound(d.name, report_timestamps))
            r == RemoveEach(f1.screenshots.list, unmatched, fail, log1,
                            "Deleted screenshot folder",
                            "Failed to delete screenshot folder")
        IN  Result([f1 EXCEPT !.screenshots.list = r.list], own, r.log,
                   "returned", report_files)

(***************************************************************************)
(* CleanupUtils._cleanup_screenshots_last_execution                        *)
(***************************************************************************)
\* (variant: the slice starts one entry too late)
OldFoldersOffByOne(screenshot_folders, max_to_keep) ==
    IF Len(screenshot_folders) > max_to_keep
    THEN SliceFrom(screenshot_folders, max_to_keep + 1)
    ELSE <<>>

\* screenshot_folders[max_to_keep:] when len(screenshot_folders) > keep
OldFolders(screenshot_folders, max_to_keep) ==
    IF Len(screenshot_folders) > max_to_keep
    THEN SliceFrom(screenshot_folders, max_to_keep)
    ELSE <<>>

cleanup_screenshots_last_execution(f, own, max_screenshots, fail, gone) ==
    LET max_to_keep == OrDefault(max_screenshots, MaxScreenshotsToKeep)
        f1 == LoggerWrite(f, own)
        log1 == <<Info("Cleaning up screenshots, keeping", NoName, max_to_keep)>>
        listed == ListFolders(f1.screenshots)
    IN  IF gone \in Names(listed)
        THEN StatRaises(f1, own, log1, "screenshots", gone)
        ELSE
        LET screenshot_folders == SortByTimeDesc(listed)
            r == RemoveEach(f1.screenshots.list,
                            OldFolders(screenshot_folders, max_to_keep),
                            fail, log1,
                            "Deleted old screenshot folder",
                            "Failed to delete screenshot folder")
        IN  Result([f1 EXCEPT !.screenshots.list = r.list], own, r.log,
                   "returned", screenshot_folders)

(***************************************************************************)
(* CleanupUtils.cleanup_screenshots                                        *)
(***************************************************************************)
\* (variant: the directory is not checked before the dispatch)
cleanup_screenshots_unchecked(f, own, strategy, max_screenshots, reports_to_match, fail, gone) ==
    IF strategy = "match_reports"
    THEN cleanup_screenshots_match_reports(f, own, reports_to_match, fail, gone)
    ELSE IF strategy = "last_execution"
    THEN cleanup_screenshots_last_execution(f, own, max_screenshots, fail, gone)
    ELSE Result(LoggerWrite(f, own), own,
                <<Error("Unknown screenshot cleanup strategy", NoName)>>,
                "returned", <<>>)

\* (variant: the dispatch hands each strategy the other one's count)
cleanup_screenshots_swapped(f, own, strategy, max_screenshots, reports_to_match, fail, gone) ==
    IF ~f.screenshots.exists
    THEN Result(LoggerWrite(f, own), own,
                <<Info("Screenshots directory does not exist", NoName, 0)>>,
                "returned", <<>>)
    ELSE IF strategy = "match_reports"
    THEN cleanup_screenshots_match_reports(f, own, max_screenshots, fail, gone)
    ELSE IF strategy = "last_execution"
    THEN cleanup_screenshots_last_execution(f, own, reports_to_match, fail, gone)
    ELSE Result(LoggerWrite(f, own), own,
                <<Error("Unknown screenshot cleanup strategy", NoName)>>,
                "returned", <<>>)

\* (variant: any other strategy is taken to be the default one)
cleanup_screenshots_default(f, own, strategy, max_screenshots, reports_to_match, fail, gone) ==
    IF ~f.screenshots.exists
    THEN Result(LoggerWrite(f, own), own,
                <<Info("Screenshots directory does not exist", NoName, 0)>>,
                "returned", <<>>)
    ELSE IF strategy = "last_execution"
    THEN cleanup_screenshots_last_execution(f, own, max_screenshots, fail, gone)
    ELSE cleanup_screenshots_match_reports(f, own, reports_to_match, fail, gone)

cleanup_screenshots(f, own, strategy, max_screenshots, reports_to_match, fail, gone) ==
    IF ~f.screenshots.exists
    THEN Result(LoggerWrite(f, own), own,
                <<Info("Screenshots directory does not exist", NoName, 0)>>,
                "returned", <<>>)
    ELSE IF strategy = "match_reports"
    THEN cleanup_screenshots_match_reports(f, own, reports_to_match, fail, gone)
    ELSE IF strategy = "last_execution"
    THEN cleanup_screenshots_last_execution(f, own, max_screenshots, fail, gone)
    ELSE Result(LoggerWrite(f, own), own,
                <<Error("Unknown screenshot cleanup strategy", NoName)>>,
                "returned", <<>>)

(***************************************************************************)
(* The names the model's directories draw from.                            *)
(***************************************************************************)
\* a report written with a one-word prefix: report_<timestamp>.html
ReportT(t) == "report_" \o Strftime(t) \o Html
\* a report written with the configured prefix: playwright_report_<timestamp>.html
PlaywrightReportT(t) == PlaywrightReport \o Strftime(t) \o Html
ReportFinal == "reportfinal" \o Html
ReportEmpty == "report_" \o Html
Notes == "notes.txt"
\* test_execution_<timestamp>.log, as Logger._setup_logger names its file
LogT(t) == TestExecution \o Strftime(t) \o DotLog
\* LOGGING_SETTINGS["log_file"]: test_execution.log
PlainLog == "test_execution" \o DotLog
\* a screenshot folder is named by the timestamp of its run
FolderT(t) == Strftime(t)
Misc == "misc"
ShotPng == "shot.png"

File(name) == [name |-> name, kind |-> "file"]
Folder(name) == [name |-> name, kind |-> "dir"]
At(e, t) == [name |-> e.name, kind |-> e.kind, time |-> t]

ReportsUniverse == <<File(ReportT(1)), File(PlaywrightReportT(2)), File(ReportFinal),
                     File(Notes)>>
LogsUniverse == <<File(LogT(1)), File(LogT(2)), File(LogT(3)), File(PlainLog)>>
FoldersUniverse == <<Folder(FolderT(1)), Folder(FolderT(2)), Folder(Misc),
                     File(ShotPng)>>
MatchUniverse == <<File(ReportT(1)), File(ReportT(2)), File(ReportT(3)),
                   File(PlaywrightReportT(1)), File(ReportFinal), File(ReportEmpty)>>

RECURSIVE Ascending(_)
Ascending(S) == IF S = {} THEN <<>>
                ELSE <<SetMin(S)>> \o Ascending(S \ {SetMin(S)})

\* The listings of at most MaxEntries entries of universe U, in the order of
\* U, with every pattern of earlier, later and equal times.
Listings(U) ==
    UNION {
        LET idx == Ascending(I)
        IN  { [j \in 1..Len(idx) |-> At(U[idx[j]], t[j])] :
                t \in { u \in [1..Len(idx) -> 1..Len(idx)] :
                          \A v \in 1..Len(idx) :
                             (\E j \in 1..Len(idx) : u[j] >= v)
                                => (\E j \in 1..Len(idx) : u[j] = v) } }
        : I \in { J \in SUBSET (1..Len(U)) : Cardinality(J) <= MaxEntries } }

FixedReports == Dir(<<At(File(ReportT(1)), 1), At(File(PlaywrightReportT(2)), 2),
                      At(File(ReportFinal), 2), At(File(Notes), 1)>>)
FixedLogs == Dir(<<At(File(LogT(1)), 1), At(File(LogT(2)), 2), At(File(LogT(3)), 2),
                   At(File(PlainLog), 1)>>)
FixedOwn == LogT(1)
\* one folder for each of three runs, the folder of a run in progress, and a
\* plain file
FullShots == Dir(<<At(Folder(FolderT(1)), 1), At(Folder(FolderT(2)), 2),
                   At(Folder(FolderT(3)), 3), At(Folder(Misc), Now),
                   At(File(ShotPng), 1)>>)

\* The retention counts a caller passes: None, or an integer.
KeepArgs == {None} \cup {Some(n) : n \in (0 - MaxNeg)..MaxKeep}
\* The counts a caller of cleanup_screenshots passes.
ShotArgs == {None} \cup {Some(n) : n \in 0..MaxKeep}

\* What the environment does to a call: the deletions that fail, or the one
\* listed entry that is gone before the sort.
MaxFail == 2
Envs(names) ==
    {[fail |-> F, gone |-> NoName] :
        F \in {G \in SUBSET names : Cardinality(G) <= MaxFail}}
    \cup {[fail |-> {}, gone |-> g] : g \in names}

(***************************************************************************)
(* State.                                                                  *)
(***************************************************************************)
VARIABLES
    fs,       \* [reports, logs, screenshots]: the three directories
    own,      \* name of the log file the process's logger writes to
    pc,       \* where the caller is
    call,     \* the last call and its arguments
    pre,      \* [fs, own] when the last call was made
    sorted,   \* the sorted listing the last call worked on
    log,      \* the records logged so far, oldest first
    outcome,  \* how the last call ended: "none", "returned", "raised"
    args      \* the parsed command line of cleanup.py

vars == <<fs, own, pc, call, pre, sorted, log, outcome, args>>

NoCall == [op |-> "none", keep |-> None, strategy |-> "",
           max_screenshots |-> None, reports_to_match |-> None]

\* parse_arguments with no argument given: the defaults
DefaultArgs == [reports |-> Some(5), screenshots |-> "match_reports",
                max_screenshots |-> Some(5), reports_to_match |-> Some(5)]

Fresh ==
    /\ pc = "ready"
    /\ args = DefaultArgs
    /\ call = NoCall
    /\ pre = [fs |-> fs, own |-> own]
    /\ sorted = <<>>
    /\ log = <<>>
    /\ outcome = "none"

\* A caller of cleanup_reports and cleanup_logs: either the reports or the
\* logs directory is arbitrary.
Init ==
    /\ \/ /\ \E d \in {NoDir} \cup {Dir(l) : l \in Listings(ReportsUniverse)} :
               fs = [reports |-> d, logs |-> FixedLogs, screenshots |-> FullShots]
          /\ own = FixedOwn
       \/ /\ \E d \in {NoDir} \cup {Dir(l) : l \in Listings(LogsUniverse)} :
               /\ fs = [reports |-> FixedReports, logs |-> d,
                        screenshots |-> FullShots]
               /\ own \in {NoName} \cup Names(GlobLog(d))
    /\ Fresh

Apply(r, c) ==
    /\ fs' = r.fs
    /\ own' = r.own
    /\ log' = log \o r.log
    /\ outcome' = r.outcome
    /\ sorted' = r.sorted
    /\ pre' = [fs |-> fs, own |-> own]
    /\ call' = c
    /\ UNCHANGED args

ReportsCall(keep) == [NoCall EXCEPT !.op = "cleanup_reports", !.keep = keep]
LogsCall(keep) == [NoCall EXCEPT !.op = "cleanup_logs", !.keep = keep]

CallCleanupReports ==
    /\ pc = "ready"
    /\ \E keep \in KeepArgs, env \in Envs(Names(GlobHtml(fs.reports))) :
          Apply(cleanup_reports(fs, own, keep, env.fail, env.gone),
                ReportsCall(keep))
    /\ pc' = "called"

CallCleanupLogs ==
    /\ pc = "ready"
    /\ \E keep \in KeepArgs, env \in Envs(Names(GlobLog(fs.logs))) :
          Apply(cleanup_logs(fs, own, keep, env.fail, env.gone), LogsCall(keep))
    /\ pc' = "called"

\* The caller makes the same call again, with the same arguments.
RepeatCleanupReports ==
    /\ pc = "called"
    /\ call.op = "cleanup_reports"
    /\ \E env \in Envs(Names(GlobHtml(fs.reports))) :
          Apply(cleanup_reports(fs, own, call.keep, env.fail, env.gone), call)
    /\ pc' = "repeated"

RepeatCleanupLogs ==
    /\ pc = "called"
    /\ call.op = "cleanup_logs"
    /\ \E env \in Envs(Names(GlobLog(fs.logs))) :
          Apply(cleanup_logs(fs, own, call.keep, env.fail, env.gone), call)
    /\ pc' = "repeated"

Next ==
    \/ CallCleanupReports
    \/ CallCleanupLogs
    \/ RepeatCleanupReports
    \/ RepeatCleanupLogs

Spec == Init /\ [][Next]_vars

(***************************************************************************)
(* A caller of cleanup_screenshots: one call, on a filesystem in which     *)
(* either the reports or the screenshot folders are arbitrary.             *)
(***************************************************************************)
Strategies == {"match_reports", "last_execution", "newest_only"}

InitShots ==
    /\ \/ \E d \in {NoDir} \cup {Dir(l) : l \in Listings(MatchUniverse)} :
             fs = [reports |-> d, logs |-> FixedLogs, screenshots |-> FullShots]
       \/ \E r \in {NoDir, FixedReports},
             d \in {NoDir} \cup {Dir(l) : l \in Listings(FoldersUniverse)} :
             fs = [reports |-> r, logs |-> FixedLogs, screenshots |-> d]
    /\ own = FixedOwn
    /\ Fresh

ShotsCall(strategy, max_screenshots, reports_to_match) ==
    [NoCall EXCEPT !.op = "cleanup_screenshots", !.strategy = strategy,
                   !.max_screenshots = max_screenshots,
                   !.reports_to_match = reports_to_match]

\* The entries a call of cleanup_screenshots stats after it listed them.
Statted(f, strategy) ==
    IF strategy = "match_reports" THEN Names(GlobHtml(f.reports))
    ELSE IF strategy = "last_execution" THEN Names(ListFolders(f.screenshots))
    ELSE {}

CallCleanupScreenshots ==
    /\ pc = "ready"
    /\ \E strategy \in Strategies, n \in ShotArgs, other \in {None} :
       \E env \in
            {e \in Envs(Names(ListFolders(fs.screenshots))) : e.gone = NoName}
            \cup {e \in Envs(Statted(fs, strategy)) : e.fail = {}} :
          LET max_screenshots == IF strategy = "match_reports" THEN other ELSE n
              reports_to_match == IF strategy = "match_reports" THEN n ELSE other
          IN  Apply(cleanup_screenshots(fs, own, strategy, max_screenshots,
                                        reports_to_match, env.fail, env.gone),
                    ShotsCall(strategy, max_screenshots, reports_to_match))
    /\ pc' = "called"

NextShots == CallCleanupScreenshots

SpecShots == InitShots /\ [][NextShots]_vars

(***************************************************************************)
(* A caller of all three operations, on a filesystem in which each of the  *)
(* three directories is either missing or has its fixed contents.          *)
(***************************************************************************)
InitOps ==
    /\ \E r \in {NoDir, FixedReports}, l \in {NoDir, FixedLogs},
          d \in {NoDir, FullShots} :
          fs = [reports |-> r, logs |-> l, screenshots |-> d]
    /\ own = FixedOwn
    /\ Fresh

NextOps ==
    \/ CallCleanupReports
    \/ CallCleanupLogs
    \/ CallCleanupScreenshots
    \/ RepeatCleanupReports
    \/ RepeatCleanupLogs

SpecOps == InitOps /\ [][NextOps]_vars

(***************************************************************************)
(* cleanup.py run from the command line: the import of the logger, then    *)
(* main().                                                                 *)
(***************************************************************************)
\* (variant: the log file is LOGGING_SETTINGS["log_file"], test_execution.log)
SetupLoggerPlainFile(f) ==
    LET log_file == PlainLog
        list == IF log_file \in Names(f.logs.list)
                THEN f.logs.list
                ELSE Append(f.logs.list, At(File(log_file), Now))
    IN  Result(LoggerWrite([f EXCEPT !.logs = Dir(list)], log_file), log_file,
               <<Info("Logger initialized successfully.", NoName, 0)>>,
               "none", <<>>)

\* Logger._setup_logger: make the logs directory, open the log file of this
\* process, named by the current time, and log the first record into it.
SetupLogger(f) ==
    LET log_file == LogT(Now)
        list == IF log_file \in Names(f.logs.list)
                THEN f.logs.list
                ELSE Append(f.logs.list, At(File(log_file), Now))
    IN  Result(LoggerWrite([f EXCEPT !.logs = Dir(list)], log_file), log_file,
               <<Info("Logger initialized successfully.", NoName, 0)>>,
               "none", <<>>)

ImportLogger ==
    /\ pc = "import"
    /\ LET r == SetupLogger(fs)
       IN  /\ fs' = r.fs
           /\ own' = r.own
           /\ log' = log \o r.log
    /\ pc' = "parse"
    /\ UNCHANGED <<call, pre, sorted, outcome, args>>

\* the values given on the command line for the integer options
MainCounts == {Some(n) : n \in {-1, 1, 2, 5}}
MainWindows == {Some(n) : n \in {1, 5}}

\* (variant: --screenshots takes any value)
ParseArgumentsAnyStrategy ==
    /\ pc = "parse"
    /\ \E reports \in MainCounts, screenshots \in Strategies,
          window \in MainWindows :
          /\ args' = [reports |-> reports, screenshots |-> screenshots,
                      max_screenshots |->
                          IF screenshots = "last_execution" THEN window
                          ELSE DefaultArgs.max_screenshots,
                      reports_to_match |->
                          IF screenshots = "match_reports" THEN window
                          ELSE DefaultArgs.reports_to_match]
          /\ pc' = "start"
    /\ UNCHANGED <<fs, own, call, pre, sorted, log, outcome>>

\* parse_arguments: --screenshots has two choices, and argparse ends the
\* process with status 2 on any other value.
ParseArguments ==
    /\ pc = "parse"
    /\ \E reports \in MainCounts, screenshots \in Strategies,
          window \in MainWindows :
          IF screenshots \in {"match_reports", "last_execution"}
          THEN /\ args' = [reports |-> reports, screenshots |-> screenshots,
                           max_screenshots |->
                               IF screenshots = "last_execution" THEN window
                               ELSE DefaultArgs.max_screenshots,
                           reports_to_match |->
                               IF screenshots = "match_reports" THEN window
                               ELSE DefaultArgs.reports_to_match]
               /\ pc' = "start"
          ELSE /\ args' = args
               /\ pc' = "exit2"
    /\ UNCHANGED <<fs, own, call, pre, sorted, log, outcome>>

\* (variant: the screenshots are cleaned first)
SequelScreenshotsFirst(step) ==
    CASE step = "start" -> "screenshots"
      [] step = "screenshots" -> "reports"
      [] step = "reports" -> "logs"
      [] step = "logs" -> "complete"
      [] step = "complete" -> "exit0"

\* (variant: the logs are cleaned before the reports)
SequelLogsFirst(step) ==
    CASE step = "start" -> "logs"
      [] step = "logs" -> "reports"
      [] step = "reports" -> "screenshots"
      [] step = "screenshots" -> "complete"
      [] step = "complete" -> "exit0"

\* The order of the statements of main().
Sequel(step) ==
    CASE step = "start" -> "reports"
      [] step = "reports" -> "logs"
      [] step = "logs" -> "screenshots"
      [] step = "screenshots" -> "complete"
      [] step = "complete" -> "exit0"

\* (variant: a failed deletion ends the run like an exception)
AfterFailFast(step, r) ==
    IF r.outcome = "raised" \/ (\E i \in 1..Len(r.log) : r.log[i].level = "ERROR")
    THEN "exit1"
    ELSE Sequel(step)

\* An exception that leaves a cleanup call leaves main() too: the process
\* ends with a traceback and status 1.
After(step, r) == IF r.outcome = "raised" THEN "exit1" ELSE Sequel(step)

\* logger.info("Starting cleanup process")
LogStart ==
    /\ pc = "start"
    /\ fs' = LoggerWrite(fs, own)
    /\ log' = Append(log, Info("Starting cleanup process", NoName, 0))
    /\ pc' = Sequel("start")
    /\ UNCHANGED <<own, call, pre, sorted, outcome, args>>

\* CleanupUtils.cleanup_reports(args.reports)
MainCleanupReports ==
    /\ pc = "reports"
    /\ \E env \in Envs(Names(GlobHtml(fs.reports))) :
          LET r == cleanup_reports(fs, own, args.reports, env.fail, env.gone)
          IN  /\ Apply(r, ReportsCall(args.reports))
              /\ pc' = After("reports", r)

\* (variant: cleanup_logs is called without a count)
MainLogsCountNone(a) == None

\* the count main() passes to cleanup_logs: args.reports
MainLogsCount(a) == a.reports

\* CleanupUtils.cleanup_logs(args.reports)
MainCleanupLogs ==
    /\ pc = "logs"
    /\ \E env \in Envs(Names(GlobLog(fs.logs))) :
          LET r == cleanup_logs(fs, own, MainLogsCount(args), env.fail, env.gone)
          IN  /\ Apply(r, LogsCall(MainLogsCount(args)))
              /\ pc' = After("logs", r)

\* CleanupUtils.cleanup_screenshots(strategy=..., max_screenshots=...,
\*                                  reports_to_match=...)
MainCleanupScreenshots ==
    /\ pc = "screenshots"
    /\ \E env \in
            {e \in Envs(Names(ListFolders(fs.screenshots))) : e.gone = NoName}
            \cup {e \in Envs(Statted(fs, args.screenshots)) : e.fail = {}} :
          LET r == cleanup_screenshots(fs, own, args.screenshots,
                                       args.max_screenshots,
                                       args.reports_to_match, env.fail, env.gone)
          IN  /\ Apply(r, ShotsCall(args.screenshots, args.max_screenshots,
                                    args.reports_to_match))
              /\ pc' = After("screenshots", r)

\* logger.info("Cleanup process completed"), and main() returns
LogCompleted ==
    /\ pc = "complete"
    /\ fs' = LoggerWrite(fs, own)
    /\ log' = Append(log, Info("Cleanup process completed", NoName, 0))
    /\ pc' = Sequel("complete")
    /\ UNCHANGED <<own, call, pre, sorted, outcome, args>>

\* Before the process starts: each directory is missing or has its fixed
\* contents.
InitMain ==
    /\ \E r \in {NoDir, FixedReports}, l \in {NoDir, FixedLogs},
          d \in {NoDir, FullShots} :
          fs = [reports |-> r, logs |-> l, screenshots |-> d]
    /\ own = NoName
    /\ pc = "import"
    /\ args = DefaultArgs
    /\ call = NoCall
    /\ pre = [fs |-> fs, own |-> own]
    /\ sorted = <<>>
    /\ log = <<>>
    /\ outcome = "none"

NextMain ==
    \/ ImportLogger
    \/ ParseArguments
    \/ LogStart
    \/ MainCleanupReports
    \/ MainCleanupLogs
    \/ MainCleanupScreenshots
    \/ LogCompleted

SpecMain == InitMain /\ [][NextMain]_vars

(***************************************************************************)
(* Vocabulary of the properties.                                           *)
(***************************************************************************)
Min(a, b) == IF a <= b THEN a ELSE b

\* the *.html entries directly in a directory
HtmlFiles(dir) == {e \in Entries(dir.list) : EndsWith(e.name, Html)}

\* the immediate subdirectories of a directory
Folders(dir) == {e \in Entries(dir.list) : e.kind = "dir"}

DirNames == {"reports", "logs", "screenshots"}

\* f and g hold the same entries: nothing created, deleted or renamed
SameEntries(f, g) ==
    \A w \in DirNames :
        /\ f[w].exists = g[w].exists
        /\ Len(f[w].list) = Len(g[w].list)
        /\ \A i \in 1..Len(f[w].list) :
              /\ f[w].list[i].name = g[w].list[i].name
              /\ f[w].list[i].kind = g[w].list[i].kind

Failures == {i \in 1..Len(log) : log[i].level = "ERROR" /\ log[i].name # NoName}

Deletions == {i \in 1..Len(log) : log[i].level = "INFO" /\ log[i].name # NoName}

NoDeletionFailed == Failures = {}

\* the directory the last call cleans
Target == IF call.op = "cleanup_reports" THEN "reports"
          ELSE IF call.op = "cleanup_logs" THEN "logs" ELSE "screenshots"

FirstCall(op) == pc = "called" /\ call.op = op

IsNumber(x) == x # None

(***************************************************************************)
(* C1. Bounded retention: with keep_count k >= 1 and no failed deletion,   *)
(* after cleanup_reports(k) exactly min(M, k) of the M *.html files of the *)
(* reports directory remain, and they are the k most recently modified,    *)
(* the first k of the newest-first order.                                  *)
(***************************************************************************)
C1_BoundedRetention ==
    (/\ FirstCall("cleanup_reports")
     /\ IsNumber(call.keep)
     /\ outcome = "returned"
     /\ NoDeletionFailed)
    => (call.keep[1] >= 1 =>
        LET k == call.keep[1]
            before == HtmlFiles(pre.fs.reports)
            after == HtmlFiles(fs.reports)
        IN  /\ after \subseteq before
            /\ Cardinality(after) = Min(Cardinality(before), k)
            /\ \A a \in after, d \in before \ after : a.time >= d.time
            /\ after = Entries(SliceTo(sorted, k)))

C1_Witness ==
    /\ FirstCall("cleanup_reports")
    /\ call.keep = Some(2)
    /\ outcome = "returned"
    /\ NoDeletionFailed
    /\ Cardinality(HtmlFiles(pre.fs.reports)) = 3
    /\ Cardinality(HtmlFiles(fs.reports)) = 2

(***************************************************************************)
(* C2. For every retention count N >= 0, N = 0 included, cleanup_reports   *)
(* and cleanup_logs (and the last_execution strategy) keep the N most      *)
(* recent entries and delete all the rest.                                 *)
(***************************************************************************)
C2_KeepsExactlyN ==
    /\ (/\ pc = "called"
        /\ call.op \in {"cleanup_reports", "cleanup_logs"}
        /\ IsNumber(call.keep)
        /\ outcome = "returned"
        /\ NoDeletionFailed)
       => (call.keep[1] >= 0 =>
           LET after == IF call.op = "cleanup_reports"
                        THEN Names(GlobHtml(fs.reports))
                        ELSE Names(GlobLog(fs.logs))
           IN  after = Names(SliceTo(sorted, call.keep[1])))
    /\ (/\ FirstCall("cleanup_screenshots")
        /\ call.strategy = "last_execution"
        /\ IsNumber(call.max_screenshots)
        /\ pre.fs.screenshots.exists
        /\ outcome = "returned"
        /\ NoDeletionFailed)
       => (call.max_screenshots[1] >= 0 =>
           Names(ListFolders(fs.screenshots))
               = Names(SliceTo(sorted, call.max_screenshots[1])))

(***************************************************************************)
(* C3. match_reports, reports named <prefix><timestamp>.html with the      *)
(* prefix "report_" or the configured prefix "playwright_report_": a       *)
(* screenshot folder is retained if and only if its name contains the      *)
(* timestamp of one of the N = reports_to_match most recently modified     *)
(* reports.                                                                *)
(***************************************************************************)
Prefixes == {"report_", PlaywrightReport}

\* the report is named <prefix><timestamp>.html, for the time t
NamedFor(name, t) == \E p \in Prefixes : name = p \o Strftime(t) \o Html

FollowsConvention(name) == \E t \in 1..Now : NamedFor(name, t)

C3_RetainedIffTimestamp ==
    (/\ FirstCall("cleanup_screenshots")
     /\ call.strategy = "match_reports"
     /\ IsNumber(call.reports_to_match)
     /\ pre.fs.screenshots.exists
     /\ outcome = "returned"
     /\ NoDeletionFailed
     /\ \A r \in HtmlFiles(pre.fs.reports) : FollowsConvention(r.name))
    => (call.reports_to_match[1] >= 1 =>
        LET recent == SliceTo(sorted, call.reports_to_match[1])
        IN  \A d \in Folders(pre.fs.screenshots) :
               d \in Folders(fs.screenshots)
                 <=> \E i \in 1..Len(recent), t \in 1..Now :
                        /\ NamedFor(recent[i].name, t)
                        /\ Contains(Strftime(t), d.name))

(***************************************************************************)
(* C4. last_execution, F folders with distinct creation times, K >= 1, no  *)
(* failed deletion: exactly min(F, K) folders remain, the K most recently  *)
(* created, and every other folder is removed.                             *)
(***************************************************************************)
C4_LastExecution ==
    (/\ FirstCall("cleanup_screenshots")
     /\ call.strategy = "last_execution"
     /\ IsNumber(call.max_screenshots)
     /\ outcome = "returned"
     /\ NoDeletionFailed
     /\ \A a, b \in Folders(pre.fs.screenshots) : a # b => a.time # b.time)
    => (call.max_screenshots[1] >= 1 =>
        LET K == call.max_screenshots[1]
            before == Folders(pre.fs.screenshots)
            after == Folders(fs.screenshots)
        IN  /\ after \subseteq before
            /\ Cardinality(after) = Min(Cardinality(before), K)
            /\ \A a \in after, d \in before \ after : a.time > d.time)

C4_Witness ==
    /\ FirstCall("cleanup_screenshots")
    /\ call.strategy = "last_execution"
    /\ call.max_screenshots = Some(2)
    /\ outcome = "returned"
    /\ NoDeletionFailed
    /\ \A a, b \in Folders(pre.fs.screenshots) : a # b => a.time # b.time
    /\ Cardinality(Folders(pre.fs.screenshots)) = 3
    /\ Cardinality(Folders(fs.screenshots)) = 2

(***************************************************************************)
(* C5. A cleanup operation called when its root directory does not exist   *)
(* creates and deletes nothing, raises no error, and logs one              *)
(* informational message and nothing else.                                 *)
(***************************************************************************)
C5_MissingDirectoryNoOp ==
    (/\ pc = "called"
     /\ ~pre.fs[Target].exists)
    => /\ outcome = "returned"
       /\ SameEntries(pre.fs, fs)
       /\ Len(log) = 1
       /\ log[1].level = "INFO"
       /\ log[1].msg \in {"Reports directory does not exist",
                          "Logs directory does not exist",
                          "Screenshots directory does not exist"}

C5_Witness ==
    /\ FirstCall("cleanup_screenshots")
    /\ call.strategy = "newest_only"
    /\ ~pre.fs.screenshots.exists
    /\ pre.fs.reports.exists
    /\ Len(log) = 1

(***************************************************************************)
(* C6. Partial-failure tolerance, in every cleanup operation: a deletion   *)
(* that fails is logged at error level, does not end the call, and does    *)
(* not keep the call from trying every other eligible entry; the entries   *)
(* whose deletion does not fail are deleted.  The eligible entries are the *)
(* ones the same call deletes when nothing fails.                          *)
(***************************************************************************)
Unhindered ==
    IF call.op = "cleanup_reports"
    THEN cleanup_reports(pre.fs, pre.own, call.keep, {}, NoName)
    ELSE IF call.op = "cleanup_logs"
    THEN cleanup_logs(pre.fs, pre.own, call.keep, {}, NoName)
    ELSE cleanup_screenshots(pre.fs, pre.own, call.strategy,
                             call.max_screenshots, call.reports_to_match,
                             {}, NoName)

Eligible == Names(pre.fs[Target].list) \ Names(Unhindered.fs[Target].list)

Failed == {log[i].name : i \in Failures}

C6_PartialFailureTolerance ==
    pc = "called" =>
        /\ Failures # {} => outcome = "returned"
        /\ outcome = "returned" =>
            /\ {log[i].name : i \in Failures \cup Deletions} = Eligible
            /\ \A n \in Eligible :
                  Cardinality({i \in Failures \cup Deletions : log[i].name = n}) = 1
            /\ Names(fs[Target].list)
                  = Names(pre.fs[Target].list) \ (Eligible \ Failed)

C6_Witness ==
    /\ FirstCall("cleanup_reports")
    /\ outcome = "returned"
    /\ Cardinality(Eligible) = 2
    /\ \E i \in Failures, j \in Deletions :
          /\ i < j
          /\ log[i].name \in Names(fs.reports.list)
          /\ log[j].name \notin Names(fs.reports.list)

(***************************************************************************)
(* C7. Unknown strategy.  As claimed: in every filesystem state,           *)
(* cleanup_screenshots with a strategy other than match_reports and        *)
(* last_execution deletes nothing and logs an error.                       *)
(***************************************************************************)
UnknownStrategy ==
    /\ FirstCall("cleanup_screenshots")
    /\ call.strategy \notin {"match_reports", "last_execution"}

C7_UnknownStrategyEverywhere ==
    UnknownStrategy =>
        /\ SameEntries(pre.fs, fs)
        /\ \E i \in 1..Len(log) : log[i].level = "ERROR"

(***************************************************************************)
(* C7, amended.  When the screenshots root exists, the call deletes        *)
(* nothing, returns and logs one error-level entry; when the root is       *)
(* missing it deletes nothing and logs no error at all.                    *)
(***************************************************************************)
C7_UnknownStrategy ==
    UnknownStrategy =>
        /\ outcome = "returned"
        /\ SameEntries(pre.fs, fs)
        /\ Len(log) = 1
        /\ log[1].level = (IF pre.fs.screenshots.exists THEN "ERROR" ELSE "INFO")

C7_Witness ==
    /\ UnknownStrategy
    /\ Folders(pre.fs.screenshots) # {}
    /\ log = <<Error("Unknown screenshot cleanup strategy", NoName)>>

(***************************************************************************)
(* C8. Fallback timestamp: under match_reports, for a report among the N   *)
(* most recent whose filename has no "_", a screenshot folder whose name   *)
(* contains the report's mtime, formatted YYYY-MM-DD_HH-MM-SS, survives;   *)
(* the filename alone never makes the call raise.                          *)
(***************************************************************************)
C8_FallbackTimestamp ==
    (/\ FirstCall("cleanup_screenshots")
     /\ call.strategy = "match_reports"
     /\ pre.fs.screenshots.exists
     /\ IsNumber(call.reports_to_match))
    => (call.reports_to_match[1] >= 1 =>
        /\ outcome = "raised"
              => Names(fs.reports.list) # Names(pre.fs.reports.list)
        /\ outcome = "returned" =>
              LET recent == SliceTo(sorted, call.reports_to_match[1])
              IN  \A i \in 1..Len(recent), d \in Folders(pre.fs.screenshots) :
                     (/\ Positions(recent[i].name, "_") = {}
                      /\ Contains(Strftime(recent[i].time), d.name))
                     => d \in Folders(fs.screenshots))

C8_Witness ==
    /\ FirstCall("cleanup_screenshots")
    /\ call.strategy = "match_reports"
    /\ call.reports_to_match = Some(1)
    /\ outcome = "returned"
    /\ Names(pre.fs.reports.list) = {"reportfinal.html"}
    /\ Names(ListFolders(pre.fs.screenshots)) =
          {"1970-01-01_00-00-01", "1970-01-01_00-00-02", "1970-01-01_00-00-03",
           "misc"}
    /\ Names(ListFolders(fs.screenshots)) = {"1970-01-01_00-00-01"}

(***************************************************************************)
(* C9. No cleanup operation lets a filesystem error reach its caller: the  *)
(* call returns normally whatever fails, an entry removed by someone else  *)
(* between the listing and the sort included.                              *)
(***************************************************************************)
C9_NeverRaises == outcome # "raised"

(***************************************************************************)
(* C10. A command-line run performs its steps in a fixed order: the start  *)
(* message is logged before any deletion; the reports cleanup has finished *)
(* before the logs cleanup starts; the logs cleanup, called with the       *)
(* reports count, has finished before the screenshot cleanup with the      *)
(* selected strategy starts; the completion message comes after all three. *)
(***************************************************************************)
Phase(msg) ==
    CASE msg = "Logger initialized successfully." -> 0
      [] msg = "Starting cleanup process" -> 1
      [] msg \in {"Reports directory does not exist",
                  "Cleaning up reports, keeping",
                  "Deleted old report", "Failed to delete report"} -> 2
      [] msg \in {"Logs directory does not exist", "Cleaning up logs, keeping",
                  "Deleted old log", "Failed to delete log"} -> 3
      [] msg \in {"Screenshots directory does not exist",
                  "Cleaning up screenshots to match",
                  "Cleaning up screenshots, keeping",
                  "Deleted screenshot folder", "Deleted old screenshot folder",
                  "Failed to delete screenshot folder",
                  "Unknown screenshot cleanup strategy"} -> 4
      [] msg = "Cleanup process completed" -> 5

Phases == {Phase(log[i].msg) : i \in 1..Len(log)}

C10_FixedOrder ==
    /\ \A i, j \in 1..Len(log) : i < j => Phase(log[i].msg) <= Phase(log[j].msg)
    /\ pc \in {"import", "parse", "start"} =>
          /\ Deletions = {}
          /\ \A w \in DirNames : Names(pre.fs[w].list) \subseteq Names(fs[w].list)
    /\ pc = "logs" => call = ReportsCall(args.reports)
    /\ pc = "screenshots" => call = LogsCall(args.reports)
    /\ pc \in {"complete", "exit0"} =>
          call = ShotsCall(args.screenshots, args.max_screenshots,
                           args.reports_to_match)
    /\ pc = "exit0" =>
          /\ Phases = 0..5
          /\ log[2].msg = "Starting cleanup process"
          /\ log[Len(log)].msg = "Cleanup process completed"

C10_Witness ==
    /\ pc = "exit0"
    /\ args.reports = Some(1)
    /\ \E i, j, k \in Deletions :
          /\ log[i].msg = "Deleted old report"
          /\ log[j].msg = "Deleted old log"
          /\ log[k].msg = "Deleted screenshot folder"

(***************************************************************************)
(* C11. Whatever deletions fail during the three cleanup steps of a        *)
(* command-line run, the step that met the failure returns and the run     *)
(* goes on with every later step, up to the completion message and exit    *)
(* code zero; a failed deletion shows as an error-level log entry only.    *)
(***************************************************************************)
\* the step of main() the run has reached; for a run ended by an exception,
\* the step whose call raised it
Position ==
    CASE pc \in {"import", "parse", "start", "exit2"} -> 1
      [] pc = "reports" -> 2
      [] pc = "logs" -> 3
      [] pc = "screenshots" -> 4
      [] pc = "complete" -> 5
      [] pc = "exit0" -> 6
      [] pc = "exit1" -> (CASE call.op = "cleanup_reports" -> 2
                            [] call.op = "cleanup_logs" -> 3
                            [] call.op = "cleanup_screenshots" -> 4)

\* a step of the run that logs a failed deletion
MeetsFailure == Failures' # Failures

C11_FailuresNeverStopRun ==
    /\ [](/\ \A i \in Failures : Phase(log[i].msg) < Position
          /\ pc = "exit1" => outcome = "raised"
          /\ pc = "exit0" =>
                /\ outcome = "returned"
                /\ log[Len(log)] = Info("Cleanup process completed", NoName, 0)
                /\ \A i \in 1..Len(log) : log[i].level \in {"INFO", "ERROR"})
    /\ [][MeetsFailure => (outcome' = "returned" /\ pc' = Sequel(pc))]_vars

C11_Witness ==
    /\ pc = "exit0"
    /\ \E i, j, k \in Failures :
          /\ log[i].msg = "Failed to delete report"
          /\ log[j].msg = "Failed to delete log"
          /\ log[k].msg = "Failed to delete screenshot folder"
    /\ \E i \in Deletions : log[i].msg = "Deleted screenshot folder"

(***************************************************************************)
(* C12. Idempotence: cleanup_reports (or cleanup_logs) run a second time   *)
(* with the same keep_count (None or a count >= 0), right after a first    *)
(* run that returned with no failed deletion, deletes nothing: the         *)
(* directories hold the same entries as after the first run.               *)
(***************************************************************************)
NonNegative(x) == x = None \/ x[1] >= 0

\* the step is the second of two successive runs of the same operation, and
\* both return
SecondRun ==
    /\ pc = "called"
    /\ pc' = "repeated"
    /\ call.op \in {"cleanup_reports", "cleanup_logs"}
    /\ call' = call
    /\ outcome = "returned"
    /\ outcome' = "returned"

C13_RetentionSafety ==
    (/\ FirstCall("cleanup_reports")
     /\ IsNumber(call.keep))
    => (call.keep[1] >= 1 =>
        LET k == call.keep[1]
            before == HtmlFiles(pre.fs.reports)
            after == HtmlFiles(fs.reports)
        IN  /\ outcome = "raised" => Deletions = {}
            /\ outcome = "returned" =>
                /\ Entries(SliceTo(sorted, k)) \subseteq after
                /\ \A d \in before \ after :
                      Cardinality({a \in after : a.time >= d.time}) >= k
                /\ Cardinality(after) > k => Failures # {}
                /\ Cardinality(after) >= Min(Cardinality(before), k))

C13_Witness ==
    /\ FirstCall("cleanup_reports")
    /\ call.keep = Some(1)
    /\ outcome = "returned"
    /\ Cardinality(HtmlFiles(pre.fs.reports)) = 3
    /\ Cardinality(HtmlFiles(fs.reports)) = 2
    /\ Cardinality(Failures) = 1
    /\ Cardinality(Deletions) = 1
    /\ sorted[1] \in HtmlFiles(fs.reports)

(***************************************************************************)
(* C14. cleanup_logs is cleanup_reports with the logs directory and        *)
(* "test_execution_*.log" in place of the reports directory and "*.html".  *)
(* As claimed: on corresponding directory contents, with the same          *)
(* keep_count and the same failing deletions, the two make the same        *)
(* deletion attempts in the same order and leave corresponding entries,    *)
(* and both log the same number of files to keep (with no keep_count, the  *)
(* same default).                                                          *)
(***************************************************************************)
\* the reports directory that corresponds to a logs directory: each
\* candidate log file is a report of the same mtime, in the same place of the
\* listing
AsReports(dir) ==
    [exists |-> dir.exists,
     list |-> [i \in 1..Len(dir.list) |->
                  IF MatchLog(dir.list[i].name)
                  THEN [dir.list[i] EXCEPT !.name = @ \o Html]
                  ELSE dir.list[i]]]

\* cleanup_reports, called where cleanup_logs was, on the corresponding
\* reports directory
Counterpart ==
    cleanup_reports([pre.fs EXCEPT !.reports = AsReports(pre.fs.logs)], pre.own,
                    call.keep, {n \o Html : n \in Failed}, NoName)

SameDeletions ==
    /\ Len(log) = Len(Counterpart.log)
    /\ \A i \in 1..Len(log) :
          /\ log[i].level = Counterpart.log[i].level
          /\ log[i].num = Counterpart.log[i].num
          /\ Counterpart.log[i].name
                = (IF log[i].name = NoName THEN NoName ELSE log[i].name \o Html)
    /\ Names(GlobHtml(Counterpart.fs.reports))
          = {n \o Html : n \in Names(GlobLog(fs.logs))}

C14_SameAlgorithm ==
    (FirstCall("cleanup_logs") /\ outcome = "returned") => SameDeletions

(***************************************************************************)
(* C14, amended.  The two agree when the log file of the calling process   *)
(* is not among the candidates, or is already more recently modified than  *)
(* every other candidate: cleanup_logs writes its first log record into    *)
(* that file before it takes the listing, which makes it the newest.       *)
(***************************************************************************)
OwnLogUndisturbed ==
    \A e \in Entries(GlobLog(pre.fs.logs)) :
        e.name = pre.own =>
            \A o \in Entries(GlobLog(pre.fs.logs)) : o.name # e.name => o.time < e.time

C14_SameAlgorithmOwnLogNewest ==
    (FirstCall("cleanup_logs") /\ outcome = "returned" /\ OwnLogUndisturbed)
        => SameDeletions

C14_Witness ==
    /\ FirstCall("cleanup_logs")
    /\ call.keep = Some(1)
    /\ outcome = "returned"
    /\ OwnLogUndisturbed
    /\ pre.own \in Names(GlobLog(pre.fs.logs))
    /\ Cardinality(Names(GlobLog(pre.fs.logs))) = 3
    /\ Cardinality(Deletions) = 1
    /\ Cardinality(Failures) = 1
    /\ SameDeletions

(***************************************************************************)
(* C15. A cleanup run only reads listings and deletes.  As claimed: at     *)
(* every step of a command-line run the entries of the reports, logs and   *)
(* screenshots directories are a subset of the entries before the step:    *)
(* no directory and no entry is created, renamed or rewritten.             *)
(***************************************************************************)
\* the step creates, renames and rewrites nothing in directory w
Frozen(w) ==
    /\ fs'[w].exists = fs[w].exists
    /\ Entries(fs'[w].list) \subseteq Entries(fs[w].list)

C15_OnlyDeletes == [][\A w \in DirNames : Frozen(w)]_vars

(***************************************************************************)
(* C15, amended.  It holds for the reports and screenshots directories,    *)
(* and in the logs directory for every entry but the log file of the       *)
(* running process: the import of the logger creates the logs directory    *)
(* when it is missing and a new log file in it, and every record logged    *)
(* is written to that file.                                                *)
(***************************************************************************)
C15_OnlyDeletesButOwnLog ==
    [][/\ Frozen("reports")
       /\ Frozen("screenshots")
       /\ fs.logs.exists => fs'.logs.exists
       /\ \A e \in Entries(fs'.logs.list) :
             \/ e \in Entries(fs.logs.list)
             \/ e = At(File(own'), Now)]_vars

C15_Witness ==
    /\ pc = "exit0"
    /\ own = LogT(Now)
    /\ At(File(own), Now) \in Entries(fs.logs.list)
    /\ Names(fs.logs.list) = {own, PlainLog}
    /\ Names(fs.reports.list) = {PlaywrightReportT(2), Notes}
    /\ \E i \in Deletions : log[i].msg = "Deleted screenshot folder"

(***************************************************************************)
(* C16. Token derivation and matching under match_reports: the token of    *)
(* each of the N most recently modified reports whose filename contains    *)
(* "_" is the part of the filename after the first "_", without the text   *)
(* from the last "." on (a filename without "_" gives its formatted        *)
(* mtime); a screenshot folder is kept iff its name contains one of these  *)
(* tokens, and every other immediate subdirectory of the root is deleted.  *)
(***************************************************************************)
\* where the first "_" of name is
FirstSeparator(name) ==
    CHOOSE i \in 1..Len(name) :
        /\ SubSeq(name, i, i) = "_"
        /\ \A k \in 1..(i - 1) : SubSeq(name, k, k) # "_"

\* the part of name after its first "_", up to the last "." that follows
TokenOf(name) ==
    LET i == FirstSeparator(name)
        ends == {j \in (i + 1)..Len(name) :
                    /\ SubSeq(name, j, j) = "."
                    /\ \A k \in (j + 1)..Len(name) : SubSeq(name, k, k) # "."}
    IN  IF ends = {} THEN SubSeq(name, i + 1, Len(name))
        ELSE SubSeq(name, i + 1, (CHOOSE j \in ends : TRUE) - 1)

\* folder name d contains the token of report r
HoldsTokenOf(d, r) ==
    IF \A k \in 1..Len(r.name) : SubSeq(r.name, k, k) # "_"
    THEN Contains(Strftime(r.time), d)
    ELSE Contains(TokenOf(r.name), d)

C16_TokenDerivation ==
    (/\ FirstCall("cleanup_screenshots")
     /\ call.strategy = "match_reports"
     /\ pre.fs.screenshots.exists
     /\ outcome = "returned"
     /\ NoDeletionFailed
     /\ OrDefault(call.reports_to_match, MaxReportsToKeep) >= 1)
    => LET N == OrDefault(call.reports_to_match, MaxReportsToKeep)
           recent == SliceTo(sorted, N)
       IN  /\ \A d \in Folders(pre.fs.screenshots) :
                 d \in Folders(fs.screenshots)
                    <=> \E i \in 1..Len(recent) : HoldsTokenOf(d.name, recent[i])
           /\ Folders(fs.screenshots) \subseteq Folders(pre.fs.screenshots)
           /\ Names(fs.screenshots.list) \ Names(ListFolders(fs.screenshots))
                 = Names(pre.fs.screenshots.list)
                      \ Names(ListFolders(pre.fs.screenshots))

C16_Witness ==
    /\ FirstCall("cleanup_screenshots")
    /\ call.strategy = "match_reports"
    /\ call.reports_to_match = Some(2)
    /\ outcome = "returned"
    /\ NoDeletionFailed
    /\ Names(SliceTo(sorted, 2)) = {ReportT(2), PlaywrightReportT(1)}
    /\ Len(sorted) = 3
    /\ Names(ListFolders(pre.fs.screenshots)) =
          {FolderT(1), FolderT(2), FolderT(3), Misc}
    /\ Names(ListFolders(fs.screenshots)) = {FolderT(2)}

(***************************************************************************)
(* C17. Under match_reports a screenshot folder whose name contains none   *)
(* of the N tokens is deleted whatever its age, a folder created after     *)
(* every report was last modified (the folder of a run in progress)        *)
(* included: the creation time of a folder never protects it.              *)
(***************************************************************************)
MatchReportsCall ==
    /\ FirstCall("cleanup_screenshots")
    /\ call.strategy = "match_reports"
    /\ pre.fs.screenshots.exists
    /\ outcome = "returned"

\* the reports whose tokens the call matches against
Recent == SliceTo(sorted, OrDefault(call.reports_to_match, MaxReportsToKeep))

Unmatched(d) == \A i \in 1..Len(Recent) : ~HoldsTokenOf(d.name, Recent[i])

C17_AgeNeverProtects ==
    MatchReportsCall =>
        \A d \in Folders(pre.fs.screenshots) :
            (Unmatched(d) /\ d.name \notin Failed)
                => d.name \notin Names(fs.screenshots.list)

C17_Witness ==
    /\ MatchReportsCall
    /\ Len(Recent) >= 1
    /\ \E d \in Folders(pre.fs.screenshots) :
          /\ Unmatched(d)
          /\ \A r \in HtmlFiles(pre.fs.reports) : r.time < d.time
          /\ d.name \notin Names(fs.screenshots.list)
    /\ \E d \in Folders(fs.screenshots) : ~Unmatched(d)

(***************************************************************************)
(* C18. Stable tie-break: report (or log) files that have the same mtime   *)
(* when the listing is sorted keep the relative order of the directory     *)
(* listing, so of two tied files on either side of the keep_count boundary *)
(* the one listed earlier is kept and the one listed later is deleted.     *)
(***************************************************************************)
\* where the entry called name is in seq
PlaceIn(seq, name) == CHOOSE i \in 1..Len(seq) : seq[i].name = name

\* a and b are places of the sorted listing, of two files with the same time
Tied(a, b) == a # b /\ sorted[a].time = sorted[b].time

ListedBefore(a, b) ==
    PlaceIn(pre.fs[Target].list, sorted[a].name)
        < PlaceIn(pre.fs[Target].list, sorted[b].name)

C18_StableTieBreak ==
    (/\ pc = "called"
     /\ call.op \in {"cleanup_reports", "cleanup_logs"}
     /\ outcome = "returned")
    => \A a, b \in 1..Len(sorted) :
          (Tied(a, b) /\ ListedBefore(a, b)) =>
              /\ a < b
              /\ (Failures = {} /\ sorted[b].name \in Names(fs[Target].list))
                    => sorted[a].name \in Names(fs[Target].list)

C18_Witness ==
    /\ FirstCall("cleanup_logs")
    /\ call.keep = Some(2)
    /\ outcome = "returned"
    /\ Failures = {}
    /\ Len(sorted) = 3
    /\ Tied(2, 3)
    /\ ListedBefore(2, 3)
    /\ sorted[2].name \in Names(fs.logs.list)
    /\ sorted[3].name \notin Names(fs.logs.list)

(***************************************************************************)
(* C19. Parameter independence in cleanup_screenshots: on the same         *)
(* filesystem, with the same deletions failing, a match_reports call       *)
(* deletes the same folders (and logs the same records) for every value of *)
(* max_screenshots, and a last_execution call does for every value of      *)
(* reports_to_match and every content of the reports directory.            *)
(***************************************************************************)
\* other contents of the reports directory
OtherReports ==
    {NoDir, FixedReports}
        \cup {Dir(l) : l \in Listings(<<File(ReportT(3)), File(ReportEmpty)>>)}

\* the call made again, where it was made, with other values
Again(reports, max_screenshots, reports_to_match) ==
    cleanup_screenshots([pre.fs EXCEPT !.reports = reports], pre.own,
                        call.strategy, max_screenshots, reports_to_match,
                        Failed, NoName)

SameOutcome(r) ==
    /\ r.outcome = outcome
    /\ r.fs.screenshots = fs.screenshots
    /\ r.fs.logs = fs.logs
    /\ r.log = log

C19_ParameterIndependence ==
    (FirstCall("cleanup_screenshots") /\ outcome = "returned") =>
        /\ call.strategy = "match_reports" =>
              \A m \in KeepArgs :
                  SameOutcome(Again(pre.fs.reports, m, call.reports_to_match))
        /\ call.strategy = "last_execution" =>
              \A n \in KeepArgs, d \in OtherReports :
                  SameOutcome(Again(d, call.max_screenshots, n))

C19_Witness ==
    /\ FirstCall("cleanup_screenshots")
    /\ call.strategy = "last_execution"
    /\ call.max_screenshots = Some(1)
    /\ outcome = "returned"
    /\ pre.fs.reports = FixedReports
    /\ Cardinality(Deletions) = 2
    /\ Cardinality(Folders(fs.screenshots)) = 1
    /\ Again(NoDir, Some(1), Some(2)).fs.screenshots = fs.screenshots

(***************************************************************************)
(* C20. Frame of each operation: cleanup_reports deletes only *.html       *)
(* entries of the reports directory, cleanup_logs only                     *)
(* test_execution_*.log entries of the logs directory (test_execution.log  *)
(* is not one), cleanup_screenshots, with either strategy, only immediate  *)
(* subdirectories of the screenshots root, never a plain file of the root  *)
(* and never a report or a log.  Every other entry stays as it was (the    *)
(* log file the process writes to gets a new mtime).                       *)
(***************************************************************************)
\* what the operation called last may delete
InFrame(e) ==
    CASE call.op = "cleanup_reports" -> EndsWith(e.name, ".html")
      [] call.op = "cleanup_logs" ->
            /\ StartsWith(e.name, "test_execution_")
            /\ EndsWith(e.name, ".log")
      [] call.op = "cleanup_screenshots" -> e.kind = "dir"

\* the entries of directory w that are no longer there
Removed(w) == {e \in Entries(pre.fs[w].list) : e.name \notin Names(fs[w].list)}

C20_Frame ==
    (pc = "called" /\ outcome = "returned") =>
        /\ \A w \in DirNames \ {Target} : Removed(w) = {}
        /\ \A e \in Removed(Target) : InFrame(e)
        /\ {log[i].name : i \in Deletions} = {e.name : e \in Removed(Target)}
        /\ \A w \in DirNames :
              /\ fs[w].exists = pre.fs[w].exists
              /\ \A e \in Entries(fs[w].list) :
                    \/ e \in Entries(pre.fs[w].list)
                    \/ /\ w = "logs"
                       /\ e.name = own
                       /\ e.name \in Names(pre.fs.logs.list)

C20_Witness ==
    /\ FirstCall("cleanup_logs")
    /\ call.keep = Some(1)
    /\ outcome = "returned"
    /\ Failures = {}
    /\ Cardinality(Removed("logs")) = 2
    /\ pre.fs.logs = FixedLogs
    /\ At(File(PlainLog), 1) \in Entries(fs.logs.list)
    /\ \E e \in Removed("logs") : e.time > 1

(***************************************************************************)
(* C21. After a complete command-line run with the strategy match_reports, *)
(* reports >= 1, reports-to-match >= 1 and no failed deletion, every       *)
(* screenshot folder that remains contains the token of a report that      *)
(* remains too: the tokens come from the reports the reports cleanup left, *)
(* so the window is the min(reports, reports-to-match) most recent ones.   *)
(***************************************************************************)
CompleteMatchRun ==
    /\ pc = "exit0"
    /\ args.screenshots = "match_reports"
    /\ args.reports[1] >= 1
    /\ args.reports_to_match[1] >= 1
    /\ Failures = {}

C21_FoldersFollowReports ==
    CompleteMatchRun =>
        LET window == Min(args.reports[1], args.reports_to_match[1])
            remaining == SortByTimeDesc(GlobHtml(fs.reports))
            recent == SliceTo(remaining, window)
        IN  /\ Len(remaining) <= args.reports[1]
            /\ \A d \in Folders(fs.screenshots) :
                  \E i \in 1..Len(recent) : HoldsTokenOf(d.name, recent[i])

C21_Witness ==
    /\ CompleteMatchRun
    /\ args.reports = Some(2)
    /\ args.reports_to_match = Some(5)
    /\ Names(fs.reports.list) = {PlaywrightReportT(2), ReportFinal, Notes}
    /\ Names(ListFolders(fs.screenshots)) = {FolderT(2)}
    /\ \E i \in Deletions : log[i].name = ReportT(1)
    /\ \E i \in Deletions : log[i].name = FolderT(1)

(***************************************************************************)
(* C22. Under match_reports, when the screenshots root exists and the      *)
(* reports directory holds no *.html file, or does not exist, there is no  *)
(* token and every immediate subdirectory of the screenshots root is       *)
(* deleted: a missing reports directory does not make the call a no-op.    *)
(***************************************************************************)
C22_NoReportsDeletesAll ==
    (MatchReportsCall /\ HtmlFiles(pre.fs.reports) = {}) =>
        /\ sorted = <<>>
        /\ log[1].msg = "Cleaning up screenshots to match"
        /\ {log[i].name : i \in Deletions \cup Failures}
              = Names(ListFolders(pre.fs.screenshots))
        /\ Names(ListFolders(fs.screenshots)) = Failed
        /\ Entries(fs.screenshots.list) \ Folders(fs.screenshots)
              = Entries(pre.fs.screenshots.list) \ Folders(pre.fs.screenshots)

C22_Witness ==
    /\ MatchReportsCall
    /\ ~pre.fs.reports.exists
    /\ pre.fs.screenshots = FullShots
    /\ Cardinality(Deletions) = 4
    /\ Names(fs.screenshots.list) = {ShotPng}

(***************************************************************************)
(* C23. Under match_reports, if one of the N most recent reports gives an  *)
(* empty token (nothing between the first "_" and the last "." of its      *)
(* name, as in report_.html), the empty token is in every folder name and  *)
(* the call deletes no screenshot folder at all.                           *)
(***************************************************************************)
HasSeparator(name) == \E k \in 1..Len(name) : SubSeq(name, k, k) = "_"

EmptyTokenAmongRecent ==
    \E i \in 1..Len(Recent) :
        /\ HasSeparator(Recent[i].name)
        /\ Len(TokenOf(Recent[i].name)) = 0

C23_EmptyTokenKeepsAll ==
    (MatchReportsCall /\ EmptyTokenAmongRecent) =>
        /\ Deletions = {}
        /\ Failures = {}
        /\ fs.screenshots = pre.fs.screenshots

C23_Witness ==
    /\ MatchReportsCall
    /\ call.reports_to_match = Some(2)
    /\ Len(sorted) = 3
    /\ Recent[2].name = ReportEmpty
    /\ Recent[1].name = ReportT(2)
    /\ fs.screenshots = FullShots
    /\ Len(log) = 1

(***************************************************************************)
(* C24. In a command-line run the import of the logger has made the logs   *)
(* directory and a new file test_execution_<timestamp>.log before          *)
(* cleanup_logs runs.  That file is a candidate of cleanup_logs and the    *)
(* most recently modified one; with a reports count k >= 1 the run never   *)
(* deletes it, so at most k - 1 log files of earlier runs survive a logs   *)
(* cleanup without failed deletion; and cleanup_logs never finds the logs  *)
(* directory missing.                                                      *)
(***************************************************************************)
\* the log files that cleanup_logs looks at
LogCandidates ==
    {e \in Entries(fs.logs.list) :
        StartsWith(e.name, "test_execution_") /\ EndsWith(e.name, ".log")}

\* the logs cleanup of the run is over, and none of its deletions failed
LogsCleaned ==
    /\ pc \in {"screenshots", "complete", "exit0"}
    /\ \A i \in Failures : log[i].msg # "Failed to delete log"

C24_OwnLogSurvives ==
    /\ [](/\ pc = "logs" =>
                /\ fs.logs.exists
                /\ \E e \in LogCandidates : e.name = own
                /\ \A e \in LogCandidates : e.name # own =>
                      \A o \in LogCandidates : o.name = own => e.time < o.time
          /\ args.reports[1] >= 1 =>
                /\ \A i \in Deletions : log[i].name # own
                /\ LogsCleaned =>
                      /\ own \in Names(fs.logs.list)
                      /\ Cardinality({e \in LogCandidates : e.name # own})
                            <= args.reports[1] - 1
          /\ \A i \in 1..Len(log) : log[i].msg # "Logs directory does not exist")
    /\ [][pc = "import" =>
             /\ own' \notin Names(fs.logs.list)
             /\ At(File(own'), Now) \in Entries(fs'.logs.list)
             /\ own' = "test_execution_" \o Strftime(Now) \o ".log"]_vars

C24_Witness ==
    /\ pc = "exit0"
    /\ args.reports = Some(2)
    /\ Cardinality({i \in Deletions : log[i].msg = "Deleted old log"}) = 2
    /\ Cardinality(LogCandidates) = 2
    /\ own \in Names(fs.logs.list)
    /\ LogsCleaned

(***************************************************************************)
(* C25. On the command line a --screenshots value other than match_reports *)
(* and last_execution is rejected while the arguments are parsed, before   *)
(* the start message and before any cleanup: nothing is deleted in any of  *)
(* the three directories, the process is over and its exit code is not     *)
(* zero; no cleanup step ever runs with such a value.                      *)
(***************************************************************************)
C25_InvalidStrategyRejected ==
    /\ [](/\ pc = "exit2" =>
                /\ log = <<Info("Logger initialized successfully.", NoName, 0)>>
                /\ call = NoCall
                /\ outcome = "none"
                /\ \A w \in DirNames :
                      Entries(pre.fs[w].list) \subseteq Entries(fs[w].list)
          /\ pc \in {"start", "reports", "logs", "screenshots", "complete",
                     "exit0", "exit1"} =>
                args.screenshots \in {"match_reports", "last_execution"}
          /\ \A i \in 1..Len(log) :
                log[i].msg # "Unknown screenshot cleanup strategy")
    /\ [][pc # "exit2"]_vars

C25_Witness ==
    /\ pc = "exit2"
    /\ fs.reports = FixedReports
    /\ fs.screenshots = FullShots
    /\ Names(fs.logs.list) = Names(FixedLogs.list) \cup {own}

(***************************************************************************)
(* Two processes that call cleanup_reports on the same reports directory   *)
(* at the same time, with the same keep_count, and nothing else going on   *)
(* in the filesystem.  Each process takes the steps of the function one    *)
(* at a time: the listing (glob), the sort (which stats every listed       *)
(* file), and one deletion for each old file.  Here pc, sorted, log and    *)
(* outcome have one component for each process; sorted[p] holds what p has *)
(* listed and, after the sort, the old files p has still to delete.        *)
(***************************************************************************)
Procs == {1, 2}

InitConc ==
    /\ \E l \in Listings(ReportsUniverse) :
          fs = [reports |-> Dir(l), logs |-> NoDir, screenshots |-> NoDir]
    /\ own = NoName
    /\ \E k \in 1..MaxKeep : call = ReportsCall(Some(k))
    /\ pre = [fs |-> fs, own |-> own]
    /\ pc = [p \in Procs |-> "list"]
    /\ sorted = [p \in Procs |-> <<>>]
    /\ log = [p \in Procs |-> <<>>]
    /\ outcome = [p \in Procs |-> "none"]
    /\ args = DefaultArgs

\* logger.info(...); report_files = glob.glob(os.path.join(dir, "*.html"))
ConcList(p) ==
    /\ pc[p] = "list"
    /\ sorted' = [sorted EXCEPT ![p] = GlobHtml(fs.reports)]
    /\ log' = [log EXCEPT ![p] =
                  <<Info("Cleaning up reports, keeping", NoName,
                         OrDefault(call.keep, MaxReportsToKeep))>>]
    /\ pc' = [pc EXCEPT ![p] = "sort"]
    /\ UNCHANGED <<fs, own, call, pre, outcome, args>>

\* report_files.sort(key=os.path.getmtime, reverse=True): getmtime raises
\* FileNotFoundError for a listed file that is no longer there
ConcSort(p) ==
    /\ pc[p] = "sort"
    /\ IF Names(sorted[p]) \subseteq Names(fs.reports.list)
       THEN /\ sorted' = [sorted EXCEPT ![p] =
                             OldReports(SortByTimeDesc(sorted[p]),
                                        OrDefault(call.keep, MaxReportsToKeep))]
            /\ pc' = [pc EXCEPT ![p] = "delete"]
            /\ UNCHANGED outcome
       ELSE /\ sorted' = [sorted EXCEPT ![p] = <<>>]
            /\ pc' = [pc EXCEPT ![p] = "done"]
            /\ outcome' = [outcome EXCEPT ![p] = "raised"]
    /\ UNCHANGED <<fs, own, call, pre, log, args>>

\* (variant: a deletion that fails is not caught)
ConcDeleteUncaught(p) ==
    /\ pc[p] = "delete"
    /\ IF sorted[p] = <<>>
       THEN /\ pc' = [pc EXCEPT ![p] = "done"]
            /\ outcome' = [outcome EXCEPT ![p] = "returned"]
            /\ UNCHANGED <<fs, sorted, log>>
       ELSE LET e == Head(sorted[p])
            IN  IF e.name \in Names(fs.reports.list)
                THEN /\ fs' = [fs EXCEPT !.reports.list = Without(@, e.name)]
                     /\ log' = [log EXCEPT ![p] =
                                   Append(@, Info("Deleted old report", e.name, 0))]
                     /\ sorted' = [sorted EXCEPT ![p] = Tail(@)]
                     /\ UNCHANGED <<pc, outcome>>
                ELSE /\ pc' = [pc EXCEPT ![p] = "done"]
                     /\ outcome' = [outcome EXCEPT ![p] = "raised"]
                     /\ sorted' = [sorted EXCEPT ![p] = <<>>]
                     /\ UNCHANGED <<fs, log>>
    /\ UNCHANGED <<own, call, pre, args>>

\* one turn of the loop `for old_report in report_files[keep:]`:
\* try: os.remove(old_report); logger.info(...)
\* except Exception as e: logger.error(...)
\* and the return when the loop is over
ConcDelete(p) ==
    /\ pc[p] = "delete"
    /\ IF sorted[p] = <<>>
       THEN /\ pc' = [pc EXCEPT ![p] = "done"]
            /\ outcome' = [outcome EXCEPT ![p] = "returned"]
            /\ UNCHANGED <<fs, sorted, log>>
       ELSE LET e == Head(sorted[p])
            IN  /\ IF e.name \in Names(fs.reports.list)
                   THEN /\ fs' = [fs EXCEPT !.reports.list = Without(@, e.name)]
                        /\ log' = [log EXCEPT ![p] =
                                      Append(@, Info("Deleted old report",
                                                     e.name, 0))]
                   ELSE /\ fs' = fs
                        /\ log' = [log EXCEPT ![p] =
                                      Append(@, Error("Failed to delete report",
                                                      e.name))]
                /\ sorted' = [sorted EXCEPT ![p] = Tail(@)]
                /\ UNCHANGED <<pc, outcome>>
    /\ UNCHANGED <<own, call, pre, args>>

NextConc == \E p \in Procs : ConcList(p) \/ ConcSort(p) \/ ConcDelete(p)

SpecConc == InitConc /\ [][NextConc]_vars

(***************************************************************************)
(* C26. Two concurrent, uncoordinated calls of cleanup_reports on the same *)
(* directory with the same keep_count k >= 1: under every interleaving of  *)
(* their list, sort and delete steps none of the k most recently modified  *)
(* files is ever deleted; once both calls have ended every file outside    *)
(* the top k has been deleted; and an attempt to delete an entry that the  *)
(* other call has already removed is caught and logged.                    *)
(***************************************************************************)
\* the k most recently modified reports when the calls start
TopK ==
    Entries(SliceTo(SortByTimeDesc(GlobHtml(pre.fs.reports)), call.keep[1]))

BothEnded == \A p \in Procs : pc[p] = "done"

\* p logged a failed deletion of the entry called name
CaughtBy(p, name) ==
    \E i \in 1..Len(log[p]) : log[p][i] = Error("Failed to delete report", name)

DeletedBy(p, name) ==
    \E i \in 1..Len(log[p]) : log[p][i] = Info("Deleted old report", name, 0)

C26_ConcurrentCleanup ==
    /\ TopK \subseteq Entries(fs.reports.list)
    /\ \A d \in HtmlFiles(pre.fs.reports) \ HtmlFiles(fs.reports) :
          /\ Cardinality({a \in HtmlFiles(fs.reports) : a.time >= d.time})
                >= call.keep[1]
          /\ \E p \in Procs : DeletedBy(p, d.name)
    /\ BothEnded =>
          /\ HtmlFiles(fs.reports) = TopK
          /\ Entries(fs.reports.list) \ HtmlFiles(fs.reports)
                = Entries(pre.fs.reports.list) \ HtmlFiles(pre.fs.reports)
          /\ \E p \in Procs : outcome[p] = "returned"
    /\ \A p \in Procs :
          /\ \A i \in 1..Len(log[p]) :
                log[p][i].level = "ERROR" =>
                    \E q \in Procs \ {p} : DeletedBy(q, log[p][i].name)
          /\ outcome[p] = "raised" => Len(log[p]) = 1
          /\ (pc[p] = "done" /\ outcome[p] = "returned") =>
                \A d \in HtmlFiles(pre.fs.reports) \ TopK :
                    \/ DeletedBy(p, d.name)
                    \/ CaughtBy(p, d.name)
                    \/ \E q \in Procs \ {p} : DeletedBy(q, d.name)

C26_Witness ==
    /\ BothEnded
    /\ call.keep = Some(1)
    /\ Cardinality(HtmlFiles(pre.fs.reports)) = 3
    /\ \A p \in Procs :
          /\ outcome[p] = "returned"
          /\ \E d, e \in HtmlFiles(pre.fs.reports) :
                DeletedBy(p, d.name) /\ CaughtBy(p, e.name)

(***************************************************************************)
(* C27. A negative keep_count -j, j > 0, is neither rejected nor taken as  *)
(* zero: cleanup_reports and cleanup_logs delete exactly the min(j, M)     *)
(* least recently modified of the M candidates and keep all the others.    *)
(***************************************************************************)
C27_NegativeKeepCount ==
    (/\ pc = "called"
     /\ call.op \in {"cleanup_reports", "cleanup_logs"}
     /\ pre.fs[Target].exists
     /\ IsNumber(call.keep)
     /\ outcome = "returned"
     /\ NoDeletionFailed)
    => (call.keep[1] < 0 =>
        LET j == 0 - call.keep[1]
            M == Len(sorted)
            gone == {e \in Entries(sorted) : e.name \notin Names(fs[Target].list)}
            kept == Entries(sorted) \ gone
        IN  /\ log[1].num = call.keep[1]
            /\ Cardinality(gone) = Min(j, M)
            /\ Cardinality(Deletions) = Min(j, M)
            /\ \A d \in gone, a \in kept : a.time >= d.time
            /\ gone = Entries(SubSeq(sorted, M - Min(j, M) + 1, M))
            /\ Removed(Target) = {e \in Entries(pre.fs[Target].list) :
                                     e.name \in Names(SubSeq(sorted, M - Min(j, M) + 1, M))})

C27_Witness ==
    /\ FirstCall("cleanup_reports")
    /\ call.keep = Some(-1)
    /\ outcome = "returned"
    /\ NoDeletionFailed
    /\ Len(sorted) = 3
    /\ Names(GlobHtml(fs.reports)) = {sorted[1].name, sorted[2].name}
    /\ sorted[3].time < sorted[2].time

(***************************************************************************)
(* The Logger class of utilities/logger.py in one process: any number of   *)
(* constructions Logger(), and get_logger() on the instance returned last. *)
(* In this specification call holds the class and its instance:            *)
(*   instance   Logger._instance: 0 for None, else the number of the       *)
(*              object                                                     *)
(*   objects    how many objects super().__new__ has made                  *)
(*   has_logger whether the instance has its attribute logger              *)
(*   setups     how many times _setup_logger has been entered              *)
(* sorted is the sequence of the objects the constructions returned, 0 for *)
(* a construction that raised; pc is the operation made last.              *)
(***************************************************************************)
\* Most constructions Logger() a process makes.
MaxConstructions == 3

NoLogger == [instance |-> 0, objects |-> 0, has_logger |-> FALSE, setups |-> 0]

InitLogger ==
    /\ \E d \in {NoDir} \cup {Dir(l) : l \in Listings(LogsUniverse)} :
          fs = [reports |-> NoDir, logs |-> d, screenshots |-> NoDir]
    /\ own = NoName
    /\ pc = "import"
    /\ call = NoLogger
    /\ pre = [fs |-> fs, own |-> own]
    /\ sorted = <<>>
    /\ log = <<>>
    /\ outcome = "none"
    /\ args = DefaultArgs

\* What can go wrong in _setup_logger: os.makedirs cannot make the missing
\* logs directory, or logging.FileHandler cannot open the log file.
SetupFailures(f) ==
    {"none", "open"} \cup (IF f.logs.exists THEN {} ELSE {"makedirs"})

\* _setup_logger on filesystem f, ending as failure says: the filesystem it
\* leaves, the log file opened, the records logged, whether it returned
TrySetupLogger(f, failure) ==
    CASE failure = "makedirs" -> Result(f, NoName, <<>>, "raised", <<>>)
      [] failure = "open" ->
            Result([f EXCEPT !.logs = Dir(f.logs.list)], NoName, <<>>,
                   "raised", <<>>)
      [] failure = "none" ->
            [SetupLogger(f) EXCEPT !.outcome = "returned"]

\* (variant: every construction makes a new object and sets it up)
ConstructLoggerEachTime ==
    /\ Len(sorted) < MaxConstructions
    /\ \E failure \in SetupFailures(fs) :
          LET r == TrySetupLogger(fs, failure)
              object == call.objects + 1
          IN  /\ call' = [instance |-> object, objects |-> object,
                          has_logger |-> r.outcome = "returned",
                          setups |-> call.setups + 1]
              /\ fs' = r.fs
              /\ own' = IF r.outcome = "returned" THEN r.own ELSE own
              /\ log' = log \o r.log
              /\ outcome' = r.outcome
              /\ sorted' = Append(sorted, IF r.outcome = "returned"
                                          THEN object ELSE 0)
    /\ pc' = "Logger"
    /\ UNCHANGED <<pre, args>>

\* Logger(): Logger.__new__
\*   if cls._instance is None:
\*       cls._instance = super(Logger, cls).__new__(cls)
\*       cls._instance._setup_logger()
\*   return cls._instance
ConstructLogger ==
    /\ Len(sorted) < MaxConstructions
    /\ IF call.instance = 0
       THEN \E failure \in SetupFailures(fs) :
               LET r == TrySetupLogger(fs, failure)
                   object == call.objects + 1
               IN  /\ call' = [instance |-> object, objects |-> object,
                               has_logger |-> r.outcome = "returned",
                               setups |-> call.setups + 1]
                   /\ fs' = r.fs
                   /\ own' = r.own
                   /\ log' = log \o r.log
                   /\ outcome' = r.outcome
                   /\ sorted' = Append(sorted, IF r.outcome = "returned"
                                               THEN object ELSE 0)
       ELSE /\ sorted' = Append(sorted, call.instance)
            /\ outcome' = "returned"
            /\ UNCHANGED <<call, fs, own, log>>
    /\ pc' = "Logger"
    /\ UNCHANGED <<pre, args>>

\* get_logger() on the instance the last construction returned:
\* `return self.logger`, an AttributeError when the attribute was never set
GetLogger ==
    /\ pc = "Logger"
    /\ sorted[Len(sorted)] # 0
    /\ outcome' = IF call.has_logger THEN "returned" ELSE "raised"
    /\ pc' = "get_logger"
    /\ UNCHANGED <<fs, own, call, pre, sorted, log, args>>

NextLogger == ConstructLogger \/ GetLogger

SpecLogger == InitLogger /\ [][NextLogger]_vars

(***************************************************************************)
(* C28. Logger singleton: after any number of constructions Logger() in    *)
(* one process all of them have returned the same instance, _setup_logger  *)
(* has run exactly once, and the process has created exactly one file      *)
(* test_execution_<timestamp>.log (none when that one setup failed).       *)
(***************************************************************************)
\* the objects the constructions have returned
Returned == {sorted[i] : i \in 1..Len(sorted)} \ {0}

\* the entries of the logs directory that were not there before
CreatedLogs == Names(fs.logs.list) \ Names(pre.fs.logs.list)

C29_ReturnedInstanceIsSetUp ==
    /\ Returned # {} => call.has_logger
    /\ pc = "get_logger" => outcome = "returned"
    /\ (Len(sorted) >= 2 /\ sorted[1] = 0) => call.setups >= 2

====
